---- MODULE Spec2Model ----
(***************************************************************************)
(* Model of diff/walking/differ.go: walkingDiff.Compare and its helpers    *)
(* readonlyOverlay and uniqueRef, together with the collaborators Compare  *)
(* calls (mount.WithTempMount, content.Store and its Writer, the diff      *)
(* options, archive.WriteDiff, the compressor).                            *)
(*                                                                         *)
(* Strings that the code takes apart (mount options) are sequences of      *)
(* tokens: concatenation is \o, strings.HasPrefix is a prefix test and     *)
(* strings.TrimPrefix drops the prefix.  No token is a prefix of another,  *)
(* so a token sequence stands for exactly one string.                      *)
(***************************************************************************)
EXTENDS Integers, Sequences, FiniteSets, TLC

VARIABLES
    pc,        \* pc[p]: where invocation p of Compare stands
    args,      \* args[p]: the arguments Compare was called with (never changes)
    mounts,    \* mounts[p]: the caller's lower and upper slices, as they are now
    config,    \* config[p]: diff.Config, and isCompressed
    loc,       \* loc[p]: the callback's locals (newReference, errOpen, dgst, ...)
    ret,       \* ret[p]: what Compare returned: [d, err]
    log,       \* log[p]: the calls invocation p has made, in order
    blobs,     \* content store: digest -> committed blob (size, labels)
    ingests,   \* content store: reference -> transaction in progress
    pre,       \* the blobs the store held before any invocation started
    roIn,      \* readonlyOverlay's argument (SpecOverlay)
    roOut      \* readonlyOverlay's result (SpecOverlay)

vars == <<pc, args, mounts, config, loc, ret, log, blobs, ingests, pre, roIn, roOut>>

(***************************************************************************)
(* Bounds of the model.                                                    *)
(***************************************************************************)
\* longest option list given to readonlyOverlay in SpecOverlay
MaxOptLen == 3
\* longest list of diff options (opts ...diff.Opt)
MaxOpts == 2
\* longest mount set
MaxMounts == 2
\* number of different diff contents archive.WriteDiff may produce
NumContents == 2

Procs == {1, 2}

(***************************************************************************)
(* Strings.                                                                *)
(***************************************************************************)
HasPrefix(s, prefix) ==
    /\ Len(s) >= Len(prefix)
    /\ SubSeq(s, 1, Len(prefix)) = prefix

TrimPrefix(s, prefix) ==
    IF HasPrefix(s, prefix) THEN SubSeq(s, Len(prefix) + 1, Len(s)) ELSE s

UpperdirEq == <<"upperdir=">>
WorkdirEq == <<"workdir=">>
LowerdirEq == <<"lowerdir=">>
Colon == <<":">>

(***************************************************************************)
(* readonlyOverlay, differ.go:59-77.                                       *)
(***************************************************************************)
\* The first loop (62-68) up to and including opt[n]: [out, upper].
RECURSIVE FirstLoop(_, _)
FirstLoop(opt, n) ==
    IF n = 0 THEN [out |-> <<>>, upper |-> <<>>]
    ELSE LET before == FirstLoop(opt, n - 1)
             o == opt[n]
         IN  IF HasPrefix(o, UpperdirEq)
             THEN [before EXCEPT !.upper = TrimPrefix(o, UpperdirEq)]
             ELSE IF ~HasPrefix(o, WorkdirEq)
                  THEN [before EXCEPT !.out = Append(before.out, o)]
                  ELSE before

\* mutant of PrependUpper: the upper directory put after the lower ones
PrependUpperAppended(o, upperDir) ==
    IF HasPrefix(o, LowerdirEq)
    THEN LowerdirEq \o TrimPrefix(o, LowerdirEq) \o Colon \o upperDir
    ELSE o

\* One iteration of the second loop (70-74) on out[i].
PrependUpper(o, upperDir) ==
    IF HasPrefix(o, LowerdirEq)
    THEN LowerdirEq \o upperDir \o Colon \o TrimPrefix(o, LowerdirEq)
    ELSE o

readonlyOverlay(opt) ==
    LET first == FirstLoop(opt, Len(opt))
    IN  IF first.upper # <<>>
        THEN [i \in 1..Len(first.out) |-> PrependUpper(first.out[i], first.upper)]
        ELSE first.out

(***************************************************************************)
(* Values.                                                                 *)
(***************************************************************************)
\* ocispec.MediaTypeImageLayer, ocispec.MediaTypeImageLayerGzip, and a media
\* type Compare does not know by itself
MediaTypeImageLayer == "application/vnd.oci.image.layer.v1.tar"
MediaTypeImageLayerGzip == "application/vnd.oci.image.layer.v1.tar+gzip"
MediaTypeImageLayerZstd == "application/vnd.oci.image.layer.v1.tar+zstd"

\* differ.go:45
uncompressed == "containerd.io/uncompressed"

\* A Go map[string]string is a function from its keys; reading a key that is
\* absent (also of a nil map) gives the empty string, written <<>>.
EmptyString == <<>>
Lookup(m, k) == IF k \in DOMAIN m THEN m[k] ELSE EmptyString
NilLabels == [nil |-> TRUE, m |-> <<>>]

\* A digest is the algorithm and what it was computed over: equal digests
\* mean equal bytes.
Dgst(data) == <<"sha256", data>>
NoDigest == <<>>

\* differ.go:44
emptyDesc == [MediaType |-> "", Digest |-> NoDigest, Size |-> 0]

Contents == 1..NumContents
\* What a transaction's writer may receive: the whole diff c in an encoding,
\* a part of it (the stream broke, or the compressor's last flush failed), or
\* what an earlier user of a caller-supplied reference left staged.
FullChunk(enc, c) == [enc |-> enc, c |-> c, full |-> TRUE]
PartChunk(enc, c) == [enc |-> enc, c |-> c, full |-> FALSE]
StaleChunk == [enc |-> "stale", c |-> 0, full |-> FALSE]
ChunkSize(ch) ==
    (IF ch.enc = "raw" THEN 4 * ch.c ELSE 2 * ch.c) + (IF ch.full THEN 1 ELSE 0)

RECURSIVE SizeOf(_)
SizeOf(data) ==
    IF data = <<>> THEN 0 ELSE ChunkSize(Head(data)) + SizeOf(Tail(data))

\* The digest of the raw diff bytes, as a label value (dgstr.Digest().String()).
RawDigest(c) == Dgst(<<FullChunk("raw", c)>>)

\* the errors Compare returns, by the stage that failed
ErrOption == "option error"
ErrMountLower == "mount lower"
ErrMountUpper == "mount upper"
ErrWriter == "failed to open writer"
ErrTruncate == "truncate failed"
ErrCompressor == "failed to get compressed stream"
ErrWrite == "failed to write diff"
ErrCommit == "failed to commit"
ErrInfo == "failed to get info from content store"
ErrUpdate == "error setting uncompressed label"

CallerRef == "caller-ref"
CallerLabel == <<"caller-label">>

(***************************************************************************)
(* diff.Opt and diff.Config (package diff).                                *)
(***************************************************************************)
ZeroConfig ==
    [MediaType |-> "", Compressor |-> FALSE, Reference |-> "", Labels |-> NilLabels]

OptKinds ==
    {[kind |-> "WithMediaType", v |-> mt] :
        mt \in {MediaTypeImageLayer, MediaTypeImageLayerGzip, MediaTypeImageLayerZstd}}
    \cup {[kind |-> "WithCompressor", v |-> "custom"],
          [kind |-> "WithReference", v |-> CallerRef],
          [kind |-> "WithLabels", v |-> "caller"],
          [kind |-> "Failing", v |-> ErrOption]}

\* opt(&config): the configuration after the mutator, and its error
ApplyOpt(c, o) ==
    CASE o.kind = "WithMediaType" -> [config |-> [c EXCEPT !.MediaType = o.v], err |-> ""]
      [] o.kind = "WithCompressor" -> [config |-> [c EXCEPT !.Compressor = TRUE], err |-> ""]
      [] o.kind = "WithReference" -> [config |-> [c EXCEPT !.Reference = o.v], err |-> ""]
      [] o.kind = "WithLabels" ->
            [config |-> [c EXCEPT !.Labels =
                            [nil |-> FALSE, m |-> [k \in {uncompressed} |-> CallerLabel]]],
             err |-> ""]
      [] OTHER -> [config |-> c, err |-> o.v]

(***************************************************************************)
(* Compare, differ.go:82-112: the configuration.                           *)
(***************************************************************************)
\* The loop of 83-87 over opts[1..n]: the configuration, the error that ended
\* the loop, and how many mutators were called.
\* mutant of FoldOpts: the loop goes on after a mutator failed
RECURSIVE FoldOptsNoReturn(_, _)
FoldOptsNoReturn(opts, n) ==
    IF n = 0 THEN [config |-> ZeroConfig, err |-> "", applied |-> 0]
    ELSE LET before == FoldOptsNoReturn(opts, n - 1)
             r == ApplyOpt(before.config, opts[n])
         IN  [config |-> r.config,
              err |-> IF before.err # "" THEN before.err ELSE r.err,
              applied |-> n]

RECURSIVE FoldOpts(_, _)
FoldOpts(opts, n) ==
    IF n = 0 THEN [config |-> ZeroConfig, err |-> "", applied |-> 0]
    ELSE LET before == FoldOpts(opts, n - 1)
         IN  IF before.err # "" THEN before
             ELSE LET r == ApplyOpt(before.config, opts[n])
                  IN  [config |-> r.config, err |-> r.err, applied |-> n]

\* mutant of RewriteUpper: the test of the mount's type left out
RewriteUpperOfAnyType(up) ==
    [i \in 1..Len(up) |-> [up[i] EXCEPT !.Options = readonlyOverlay(up[i].Options)]]

\* 88-93
RewriteUpper(up) ==
    [i \in 1..Len(up) |->
        IF up[i].Type = "overlay"
        THEN [up[i] EXCEPT !.Options = readonlyOverlay(up[i].Options)]
        ELSE up[i]]

ErrMediaTypeRequired ==
    "media type must be explicitly specified when using custom compressor"
ErrUnsupported == "unsupported diff media type"

\* mutant of DefaultMediaType: the other layer type
DefaultMediaTypeUncompressed == MediaTypeImageLayer

\* 102
DefaultMediaType == MediaTypeImageLayerGzip

\* 94-112: the effective media type, isCompressed, and the error
Validate(c) ==
    IF c.Compressor
    THEN IF c.MediaType = ""
         THEN [config |-> c, isCompressed |-> FALSE, err |-> ErrMediaTypeRequired]
         ELSE [config |-> c, isCompressed |-> TRUE, err |-> ""]
    ELSE LET mt == IF c.MediaType = "" THEN DefaultMediaType ELSE c.MediaType
             c2 == [c EXCEPT !.MediaType = mt]
         IN  CASE mt = MediaTypeImageLayer ->
                    [config |-> c2, isCompressed |-> FALSE, err |-> ""]
               [] mt = MediaTypeImageLayerGzip ->
                    [config |-> c2, isCompressed |-> TRUE, err |-> ""]
               [] OTHER ->
                    [config |-> c2, isCompressed |-> FALSE, err |-> ErrUnsupported]


(***************************************************************************)
(* Functions whose domain grows and shrinks (the store's tables).          *)
(***************************************************************************)
Put(f, k, v) == [x \in DOMAIN f \cup {k} |-> IF x = k THEN v ELSE f[x]]
Remove(f, k) == [x \in DOMAIN f \ {k} |-> f[x]]

\* One call made by an invocation: the operation, how it ended, and the
\* reference (store) or side (mounts) it was about.
Ev(op, res, ref) == [op |-> op, res |-> res, ref |-> ref]
Res(ok) == IF ok THEN "ok" ELSE "err"

\* mutant of uniqueRef: the same name for every invocation
uniqueRefShared(p) == "generated-1"

\* differ.go:223-229: a name no other invocation and no caller uses
uniqueRef(p) == IF p = 1 THEN "generated-1" ELSE "generated-2"

ZeroLoc ==
    [applied |-> 0, isCompressed |-> FALSE, newReference |-> FALSE,
     errOpen |-> "", cbErr |-> "", dgst |-> NoDigest,
     info |-> [Digest |-> NoDigest, Size |-> 0, Labels |-> <<>>],
     ocidesc |-> emptyDesc]

Returned(p, d, e) ==
    /\ ret' = [ret EXCEPT ![p] = [d |-> d, err |-> e]]
    /\ pc' = [pc EXCEPT ![p] = "done"]

Called(p, e) == log' = [log EXCEPT ![p] = Append(@, e)]

(***************************************************************************)
(* Compare, differ.go:81-113: options, overlay rewriting, validation.      *)
(***************************************************************************)
Resolve(p) ==
    /\ pc[p] = "start"
    /\ LET f == FoldOpts(args[p].opts, Len(args[p].opts))
           v == Validate(f.config)
       IN  \/ /\ f.err # ""
              /\ Returned(p, emptyDesc, f.err)
              /\ config' = [config EXCEPT ![p] = f.config]
              /\ loc' = [loc EXCEPT ![p].applied = f.applied]
              /\ UNCHANGED mounts
           \/ /\ f.err = ""
              /\ v.err # ""
              /\ mounts' = [mounts EXCEPT ![p].upper = RewriteUpper(@)]
              /\ Returned(p, emptyDesc, v.err)
              /\ config' = [config EXCEPT ![p] = v.config]
              /\ loc' = [loc EXCEPT ![p].applied = f.applied]
           \/ /\ f.err = ""
              /\ v.err = ""
              /\ mounts' = [mounts EXCEPT ![p].upper = RewriteUpper(@)]
              /\ config' = [config EXCEPT ![p] = v.config]
              /\ loc' = [loc EXCEPT ![p].applied = f.applied,
                                    ![p].isCompressed = v.isCompressed]
              /\ pc' = [pc EXCEPT ![p] = "mountLower"]
              /\ UNCHANGED ret
    /\ UNCHANGED <<args, log, blobs, ingests, pre, roIn, roOut>>

(***************************************************************************)
(* mount.WithTempMount (package mount): mount, call the function, unmount. *)
(* Compare nests the upper mount in the lower mount's function, 115-116.   *)
(***************************************************************************)
\* mutant of MountLower: the upper set is mounted whatever became of the lower
MountLowerThenUpper(p) ==
    /\ pc[p] = "mountLower"
    /\ \E ok \in BOOLEAN : Called(p, Ev("Mount", Res(ok), "lower"))
    /\ pc' = [pc EXCEPT ![p] = "mountUpper"]
    /\ UNCHANGED <<args, mounts, config, loc, ret, blobs, ingests, pre, roIn, roOut>>

MountLower(p) ==
    /\ pc[p] = "mountLower"
    /\ \E ok \in BOOLEAN :
        /\ Called(p, Ev("Mount", Res(ok), "lower"))
        /\ IF ok
           THEN pc' = [pc EXCEPT ![p] = "mountUpper"] /\ UNCHANGED ret
           ELSE Returned(p, emptyDesc, ErrMountLower)
    /\ UNCHANGED <<args, mounts, config, loc, blobs, ingests, pre, roIn, roOut>>

MountUpper(p) ==
    /\ pc[p] = "mountUpper"
    /\ \E ok \in BOOLEAN :
        /\ Called(p, Ev("Mount", Res(ok), "upper"))
        /\ IF ok
           THEN pc' = [pc EXCEPT ![p] = "openWriter"] /\ UNCHANGED loc
           ELSE /\ pc' = [pc EXCEPT ![p] = "unmountLower"]
                /\ loc' = [loc EXCEPT ![p].cbErr = ErrMountUpper]
    /\ UNCHANGED <<args, mounts, config, ret, blobs, ingests, pre, roIn, roOut>>

UnmountUpper(p) ==
    /\ pc[p] = "unmountUpper"
    /\ Called(p, Ev("Unmount", "ok", "upper"))
    /\ pc' = [pc EXCEPT ![p] = "unmountLower"]
    /\ UNCHANGED <<args, mounts, config, loc, ret, blobs, ingests, pre, roIn, roOut>>

\* and Compare's return, 216-220
UnmountLower(p) ==
    /\ pc[p] = "unmountLower"
    /\ Called(p, Ev("Unmount", "ok", "lower"))
    /\ IF loc[p].cbErr # ""
       THEN Returned(p, emptyDesc, loc[p].cbErr)
       ELSE Returned(p, loc[p].ocidesc, "")
    /\ UNCHANGED <<args, mounts, config, loc, blobs, ingests, pre, roIn, roOut>>

(***************************************************************************)
(* The content store and its writers (package content): under a reference, *)
(* what a transaction has staged and whether a writer holds it; under a    *)
(* digest, a committed blob with its size and labels.                      *)
(***************************************************************************)
\* Writer(ref) succeeds only on a reference no writer holds
WriterFree(ing, ref) == ~(ref \in DOMAIN ing /\ ing[ref].held)
\* Writer(ref): a new transaction, or the one left under the reference
WriterOpened(ing, ref) ==
    Put(ing, ref, [held |-> TRUE,
                   data |-> IF ref \in DOMAIN ing THEN ing[ref].data ELSE <<>>])
\* Writer.Truncate(0)
WriterTruncated(ing, ref) == [ing EXCEPT ![ref].data = <<>>]
\* Writer.Write
WriterWritten(ing, ref, chunk) == [ing EXCEPT ![ref].data = Append(@, chunk)]
\* Writer.Close(): the transaction stays, for a later writer to resume
WriterClosed(ing, ref) ==
    IF ref \in DOMAIN ing THEN [ing EXCEPT ![ref].held = FALSE] ELSE ing
\* Store.Abort(ref)
Aborted(ing, ref) == Remove(ing, ref)
\* Writer.Commit: a commit that succeeded ends the transaction; one that
\* reported AlreadyExists may have ended it or not; after another error the
\* transaction is still there
Ended(ing, ref) == Remove(ing, ref)
\* Writer.Commit: the results the store can give for a digest
CommitResults(bl, dgst) == IF dgst \in DOMAIN bl THEN {"exists", "err"} ELSE {"ok", "err"}
\* Writer.Commit: the blob a successful commit adds
Committed(bl, dgst, data, labels) ==
    Put(bl, dgst, [Size |-> SizeOf(data), Labels |-> labels])
\* Store.Info(dgst)
InfoOf(bl, dgst) == [Digest |-> dgst, Size |-> bl[dgst].Size, Labels |-> bl[dgst].Labels]
\* Store.Update(info, "labels.<key>"): that one label is written
Updated(bl, info, key) == [bl EXCEPT ![info.Digest].Labels = Put(@, key, info.Labels[key])]

(***************************************************************************)
(* The function given to the inner WithTempMount, differ.go:116-215.       *)
(***************************************************************************)
Ref(p) == config[p].Reference
Staged(p) == ingests[Ref(p)].data

\* the writer's encoding of the diff: 151-179
Encoding(p) ==
    IF ~loc[p].isCompressed THEN "raw"
    ELSE IF config[p].Compressor THEN "custom" ELSE "gzip"

\* where the function goes when it returns: the deferred cleanup, 135-144
Fail(p, errOpen, err) ==
    /\ loc' = [loc EXCEPT ![p].errOpen = errOpen, ![p].cbErr = err]
    /\ pc' = [pc EXCEPT ![p] = "defer"]

\* mutants of AfterOpen: the truncation of 145-149 left out, and the writing of
\* 151-179 left out
AfterOpenUntruncated(p, newReference) ==
    IF loc[p].isCompressed THEN "compressor" ELSE "write"
AfterOpenToCommit(p, newReference) ==
    IF ~newReference THEN "truncate" ELSE "commit"

\* 145 and 151: what follows the opening of the writer
AfterOpen(p, newReference) ==
    IF ~newReference THEN "truncate"
    ELSE IF loc[p].isCompressed THEN "compressor" ELSE "write"

\* 117-130
OpenWriter(p) ==
    /\ pc[p] = "openWriter"
    /\ LET newReference == config[p].Reference = ""
           ref == IF newReference THEN uniqueRef(p) ELSE config[p].Reference
       IN  /\ config' = [config EXCEPT ![p].Reference = ref]
           /\ \E ok \in BOOLEAN :
                /\ ok => WriterFree(ingests, ref)
                /\ Called(p, Ev("Writer", Res(ok), ref))
                /\ IF ok
                   THEN /\ ingests' = WriterOpened(ingests, ref)
                        /\ loc' = [loc EXCEPT ![p].newReference = newReference]
                        /\ pc' = [pc EXCEPT ![p] = AfterOpen(p, newReference)]
                   ELSE /\ UNCHANGED ingests
                        /\ loc' = [loc EXCEPT ![p].newReference = newReference,
                                              ![p].cbErr = ErrWriter]
                        /\ pc' = [pc EXCEPT ![p] = "unmountUpper"]
    /\ UNCHANGED <<args, mounts, ret, blobs, pre, roIn, roOut>>

\* 145-149
Truncate(p) ==
    /\ pc[p] = "truncate"
    /\ \E ok \in BOOLEAN :
        /\ Called(p, Ev("Truncate", Res(ok), Ref(p)))
        /\ IF ok
           THEN /\ ingests' = WriterTruncated(ingests, Ref(p))
                /\ pc' = [pc EXCEPT ![p] =
                            IF loc[p].isCompressed THEN "compressor" ELSE "write"]
                /\ UNCHANGED loc
           ELSE /\ Fail(p, ErrTruncate, ErrTruncate)
                /\ UNCHANGED ingests
    /\ UNCHANGED <<args, mounts, config, ret, blobs, pre, roIn, roOut>>

\* 151-164
NewCompressor(p) ==
    /\ pc[p] = "compressor"
    /\ \E ok \in BOOLEAN :
        /\ Called(p, Ev("Compressor", Res(ok), Ref(p)))
        /\ IF ok
           THEN pc' = [pc EXCEPT ![p] = "write"] /\ UNCHANGED loc
           ELSE Fail(p, ErrCompressor,
                        ErrCompressor)
    /\ UNCHANGED <<args, mounts, config, ret, blobs, ingests, pre, roIn, roOut>>

\* 171-174
SetUncompressedLabel(labels, value) ==
    [nil |-> FALSE, m |-> Put(labels.m, uncompressed, value)]

\* 165-179: archive.WriteDiff into the writer (through the compressor and the
\* digester when compressed), then compressed.Close(), whose error line 166
\* drops.
WriteDiff(p) ==
    /\ pc[p] = "write"
    /\ \E c \in Contents :
        \/ /\ Called(p, Ev("WriteDiff", "ok", Ref(p)))
           /\ ingests' = WriterWritten(ingests, Ref(p), FullChunk(Encoding(p), c))
           /\ config' = IF loc[p].isCompressed
                        THEN [config EXCEPT ![p].Labels =
                                 SetUncompressedLabel(@, RawDigest(c))]
                        ELSE config
           /\ pc' = [pc EXCEPT ![p] = "commit"]
           /\ UNCHANGED loc
        \/ /\ loc[p].isCompressed
           /\ Called(p, Ev("WriteDiff", "close failed", Ref(p)))
           /\ ingests' = WriterWritten(ingests, Ref(p), PartChunk(Encoding(p), c))
           /\ config' = [config EXCEPT ![p].Labels =
                            SetUncompressedLabel(@, RawDigest(c))]
           /\ pc' = [pc EXCEPT ![p] = "commit"]
           /\ UNCHANGED loc
        \/ /\ Called(p, Ev("WriteDiff", "err", Ref(p)))
           /\ ingests' = WriterWritten(ingests, Ref(p), PartChunk(Encoding(p), c))
           /\ Fail(p, ErrWrite, ErrWrite)
           /\ UNCHANGED config
    /\ UNCHANGED <<args, mounts, ret, blobs, pre, roIn, roOut>>

\* mutants of CommitFailed: the test "errOpen != nil" of 187 left out, and the
\* test for AlreadyExists of 188 left out
CommitFailedNilUnchecked(res) == res # "exists"
CommitFailedExistsUnchecked(res) == res # "ok"

\* 187-188: the commit results that make Compare fail
CommitFailed(res) == res # "ok" /\ res # "exists"

\* 181-192
Commit(p) ==
    /\ pc[p] = "commit"
    /\ LET dgst == Dgst(Staged(p))
           labels == IF config[p].Labels.nil THEN <<>> ELSE config[p].Labels.m
       IN  \E res \in CommitResults(blobs, dgst), discarded \in BOOLEAN :
            /\ res = "ok" => discarded
            /\ res = "err" => ~discarded
            /\ Called(p, Ev("Commit", res, Ref(p)))
            /\ blobs' = IF res = "ok"
                        THEN Committed(blobs, dgst, Staged(p), labels)
                        ELSE blobs
            /\ ingests' = IF discarded THEN Ended(ingests, Ref(p)) ELSE ingests
            /\ IF CommitFailed(res)
               THEN /\ loc' = [loc EXCEPT ![p].dgst = dgst,
                                          ![p].errOpen = ErrCommit,
                                          ![p].cbErr = ErrCommit]
                    /\ pc' = [pc EXCEPT ![p] = "defer"]
               ELSE /\ loc' = [loc EXCEPT ![p].dgst = dgst, ![p].errOpen = ""]
                    /\ pc' = [pc EXCEPT ![p] = "info"]
    /\ UNCHANGED <<args, mounts, config, ret, pre, roIn, roOut>>

\* mutant of NeedsLabel: the test of 202 inverted
NeedsLabelInverted(labels) == uncompressed \in DOMAIN labels

\* 202: the label is patched when the blob's metadata has none
NeedsLabel(labels) == uncompressed \notin DOMAIN labels

\* mutant of Descriptor: the size left at its zero value
DescriptorUnsized(p, info) ==
    [MediaType |-> config[p].MediaType, Digest |-> info.Digest, Size |-> 0]

\* 209-213
Descriptor(p, info) ==
    [MediaType |-> config[p].MediaType, Digest |-> info.Digest, Size |-> info.Size]

\* 194-203, and 209-214 when the label is there
Info(p) ==
    /\ pc[p] = "info"
    /\ \E ok \in BOOLEAN :
        /\ ok => loc[p].dgst \in DOMAIN blobs
        /\ Called(p, Ev("Info", Res(ok), Ref(p)))
        /\ IF ok
           THEN LET info == InfoOf(blobs, loc[p].dgst)
                IN  IF NeedsLabel(info.Labels)
                    THEN /\ loc' = [loc EXCEPT ![p].info =
                                      [info EXCEPT !.Labels =
                                          Put(@, uncompressed,
                                              Lookup(config[p].Labels.m, uncompressed))]]
                         /\ pc' = [pc EXCEPT ![p] = "update"]
                    ELSE /\ loc' = [loc EXCEPT ![p].info = info,
                                               ![p].ocidesc = Descriptor(p, info)]
                         /\ pc' = [pc EXCEPT ![p] = "defer"]
           ELSE /\ loc' = [loc EXCEPT ![p].cbErr = ErrInfo]
                /\ pc' = [pc EXCEPT ![p] = "defer"]
    /\ UNCHANGED <<args, mounts, config, ret, blobs, ingests, pre, roIn, roOut>>

\* 204-214: store.Update of the one field "labels.containerd.io/uncompressed"
Update(p) ==
    /\ pc[p] = "update"
    /\ \E ok \in BOOLEAN :
        /\ ok => loc[p].dgst \in DOMAIN blobs
        /\ Called(p, Ev("Update", Res(ok), Ref(p)))
        /\ IF ok
           THEN /\ blobs' = Updated(blobs, loc[p].info, uncompressed)
                /\ loc' = [loc EXCEPT ![p].ocidesc = Descriptor(p, loc[p].info)]
           ELSE /\ UNCHANGED blobs
                /\ loc' = [loc EXCEPT ![p].cbErr = ErrUpdate]
        /\ pc' = [pc EXCEPT ![p] = "defer"]
    /\ UNCHANGED <<args, mounts, config, ret, ingests, pre, roIn, roOut>>

\* mutants of NeedsCleanup and NeedsAbort: the tests of 136 and 138 left out
NeedsCleanupAlways(errOpen) == TRUE
NeedsAbortAlways(newReference) == TRUE
\* and the tests inverted, and the test of 138 failing always
NeedsCleanupInverted(errOpen) == errOpen = ""
NeedsAbortNever(newReference) == FALSE

\* 136: the cleanup runs when errOpen is set
NeedsCleanup(errOpen) == errOpen # ""

\* 138: the store's Abort is for the references Compare generated
NeedsAbort(newReference) == newReference

\* 135-144, the deferred function: cw.Close()
Deferred(p) ==
    /\ pc[p] = "defer"
    /\ IF NeedsCleanup(loc[p].errOpen)
       THEN /\ Called(p, Ev("Close", "ok", Ref(p)))
            /\ ingests' = WriterClosed(ingests, Ref(p))
            /\ pc' = [pc EXCEPT ![p] =
                        IF NeedsAbort(loc[p].newReference) THEN "abort" ELSE "unmountUpper"]
       ELSE /\ pc' = [pc EXCEPT ![p] = "unmountUpper"]
            /\ UNCHANGED <<log, ingests>>
    /\ UNCHANGED <<args, mounts, config, loc, ret, blobs, pre, roIn, roOut>>

\* 139-141: s.store.Abort, whose error is logged
Abort(p) ==
    /\ pc[p] = "abort"
    /\ \E ok \in BOOLEAN :
        /\ Called(p, Ev("Abort", Res(ok), Ref(p)))
        /\ ingests' = IF ok THEN Aborted(ingests, Ref(p)) ELSE ingests
    /\ pc' = [pc EXCEPT ![p] = "unmountUpper"]
    /\ UNCHANGED <<args, mounts, config, loc, ret, blobs, pre, roIn, roOut>>

(***************************************************************************)
(* readonlyOverlay on its own.                                             *)
(***************************************************************************)
ApplyReadonlyOverlay ==
    /\ roOut = <<"not called">>
    /\ roOut' = <<"returned", readonlyOverlay(roIn)>>
    /\ UNCHANGED <<pc, args, mounts, config, loc, ret, log, blobs, ingests, pre, roIn>>

(***************************************************************************)
(* Inputs and specifications.                                              *)
(***************************************************************************)
RECURSIVE SeqsUpTo(_, _)
SeqsUpTo(S, n) ==
    IF n = 0 THEN {<<>>}
    ELSE LET shorter == SeqsUpTo(S, n - 1)
         IN  shorter \cup {Append(q, x) : q \in shorter, x \in S}

\* mount options
OptionPool ==
    {<<"upperdir=", "/a">>, <<"upperdir=">>, <<"lowerdir=", "/b", ":", "/c">>,
     <<"lowerdir=", "/b">>, <<"workdir=", "/d">>, <<"index=off">>}

Mount(type, options) == [Type |-> type, Source |-> "overlay", Options |-> options]

ExampleOptions ==
    << <<"upperdir=", "/a">>, <<"lowerdir=", "/b", ":", "/c">>, <<"workdir=", "/d">> >>

MountPool ==
    {Mount(t, o) : t \in {"overlay", "bind"},
                   o \in {ExampleOptions, << <<"lowerdir=", "/b">>, <<"index=off">> >>}}

\* blobs another client of the store, or an earlier Compare, committed
Encodings == {"raw", "gzip", "custom"}
BlobDigests == {Dgst(<<FullChunk(e, c)>>) : e \in Encodings, c \in Contents}
LabelSets(d) ==
    {<<>>, [k \in {uncompressed} |-> RawDigest(d[2][1].c)],
           [k \in {uncompressed} |-> CallerLabel]}
StoresBefore ==
    {<<>>} \cup
    UNION {{[x \in {d} |-> [Size |-> SizeOf(d[2]), Labels |-> l]] : l \in LabelSets(d)} :
              d \in BlobDigests}

\* what an earlier, failed user of the caller's reference left staged
IngestsBefore ==
    {<<>>, [r \in {CallerRef} |-> [held |-> FALSE, data |-> <<StaleChunk>>]]}

Idle == [opts |-> <<>>, lower |-> <<>>, upper |-> <<>>]

InitWith(active, Args, Stores, Ingests) ==
    /\ args \in [Procs -> Args \cup {Idle}]
    /\ \A p \in Procs : p \notin active => args[p] = Idle
    /\ \A p \in active : args[p] \in Args
    /\ pc = [p \in Procs |-> IF p \in active THEN "start" ELSE "off"]
    /\ mounts = [p \in Procs |-> [lower |-> args[p].lower, upper |-> args[p].upper]]
    /\ config = [p \in Procs |-> ZeroConfig]
    /\ loc = [p \in Procs |-> ZeroLoc]
    /\ ret = [p \in Procs |-> [d |-> emptyDesc, err |-> ""]]
    /\ log = [p \in Procs |-> <<>>]
    /\ blobs \in Stores
    /\ ingests \in Ingests
    /\ pre = blobs

SimpleLower == <<Mount("bind", <<>>)>>

\* one invocation, every option list, a store that may hold the blob
Init ==
    /\ InitWith({1},
             [opts : SeqsUpTo(OptKinds, MaxOpts), lower : {SimpleLower},
              upper : {<<Mount("overlay", ExampleOptions)>>}],
             StoresBefore, IngestsBefore)
    /\ roIn = <<>>
    /\ roOut = <<"off">>

Step(p) ==
    \/ Resolve(p)
    \/ MountLower(p)
    \/ MountUpper(p)
    \/ OpenWriter(p)
    \/ Truncate(p)
    \/ NewCompressor(p)
    \/ WriteDiff(p)
    \/ Commit(p)
    \/ Info(p)
    \/ Update(p)
    \/ Deferred(p)
    \/ Abort(p)
    \/ UnmountUpper(p)
    \/ UnmountLower(p)

Next == \E p \in Procs : Step(p)

Spec == Init /\ [][Next]_vars

\* one invocation, every pair of mount sets
MountOpts ==
    {<<>>, <<[kind |-> "WithCompressor", v |-> "custom"]>>,
     <<[kind |-> "Failing", v |-> ErrOption]>>,
     <<[kind |-> "WithMediaType", v |-> MediaTypeImageLayerZstd]>>,
     <<[kind |-> "WithMediaType", v |-> MediaTypeImageLayer],
       [kind |-> "WithReference", v |-> CallerRef]>>}

InitMounts ==
    /\ InitWith({1},
                [opts : MountOpts,
                 lower : SeqsUpTo({Mount("overlay", ExampleOptions), Mount("bind", <<>>)},
                                  MaxMounts),
                 upper : SeqsUpTo(MountPool, MaxMounts)],
                {<<>>}, {<<>>})
    /\ roIn = <<>>
    /\ roOut = <<"off">>

SpecMounts == InitMounts /\ [][Next]_vars

\* readonlyOverlay of every option list
InitOverlay ==
    /\ InitWith({}, {Idle}, {<<>>}, {<<>>})
    /\ roIn \in SeqsUpTo(OptionPool, MaxOptLen)
    /\ roOut = <<"not called">>

NextOverlay == ApplyReadonlyOverlay

SpecOverlay == InitOverlay /\ [][NextOverlay]_vars

\* one invocation, every store and every staged leftover, and the option
\* lists that tell the paths of 114-215 apart: the reference generated or the
\* caller's, the diff raw, gzipped or through the caller's compressor, labels
\* or none; and one list for each way of failing before the mounts
StepOpts ==
    {<<>>,
     <<[kind |-> "WithMediaType", v |-> MediaTypeImageLayer]>>,
     <<[kind |-> "WithCompressor", v |-> "custom"],
       [kind |-> "WithMediaType", v |-> MediaTypeImageLayerZstd]>>,
     <<[kind |-> "WithReference", v |-> CallerRef]>>,
     <<[kind |-> "WithMediaType", v |-> MediaTypeImageLayer],
       [kind |-> "WithReference", v |-> CallerRef]>>,
     <<[kind |-> "WithLabels", v |-> "caller"]>>,
     <<[kind |-> "WithMediaType", v |-> MediaTypeImageLayer],
       [kind |-> "WithLabels", v |-> "caller"]>>,
     <<[kind |-> "Failing", v |-> ErrOption]>>,
     <<[kind |-> "WithMediaType", v |-> MediaTypeImageLayerZstd]>>}

InitSteps ==
    /\ InitWith({1},
                [opts : StepOpts, lower : {SimpleLower},
                 upper : {<<Mount("overlay", ExampleOptions)>>}],
                StoresBefore, IngestsBefore)
    /\ roIn = <<>>
    /\ roOut = <<"off">>

SpecSteps == InitSteps /\ [][Next]_vars

\* two invocations at once on one store: compressed or not, with and without
\* the caller's labels, with a generated or the caller's reference
ConcOpts ==
    {<<>>,
     <<[kind |-> "WithMediaType", v |-> MediaTypeImageLayer]>>,
     <<[kind |-> "WithMediaType", v |-> MediaTypeImageLayer],
       [kind |-> "WithLabels", v |-> "caller"]>>,
     <<[kind |-> "WithReference", v |-> CallerRef]>>}

\* an empty store, and one that holds a compressed blob without the label
ConcStores ==
    {<<>>} \cup {s \in StoresBefore :
                    \A d \in DOMAIN s : s[d].Labels = <<>> /\ d[2][1] = FullChunk("gzip", 1)}

InitConc ==
    /\ InitWith(Procs,
                [opts : ConcOpts, lower : {SimpleLower},
                 upper : {<<Mount("overlay", ExampleOptions)>>}],
                ConcStores, {<<>>})
    /\ roIn = <<>>
    /\ roOut = <<"off">>

SpecConc == InitConc /\ [][Next]_vars

(***************************************************************************)
(* Properties.                                                             *)
(***************************************************************************)
Done(p) == pc[p] = "done"
Calls(p, op, results) ==
    {i \in DOMAIN log[p] : log[p][i].op = op /\ log[p][i].res \in results}
Happened(p, op, res) == Calls(p, op, {res}) # {}
Invoked(p, op) == \E i \in DOMAIN log[p] : log[p][i].op = op
StoreOps == {"Writer", "Truncate", "WriteDiff", "Commit", "Info", "Update", "Close", "Abort"}

\* C1, as stated: whenever Compare returns an error, at whatever stage, the
\* store holds no blob that was not there before the invocation started.
C1_NoNewBlobAfterAnyError ==
    \A p \in Procs : Done(p) /\ ret[p].err # "" => DOMAIN blobs \subseteq DOMAIN pre

\* C1, amended: when Compare returns an error of a stage up to and including
\* the commit, the store holds no blob that was not there before; when it
\* returns an error of Info or Update, the commit came before, and what is
\* new in the store is the blob of this invocation's digest, if anything.
C1_NoNewBlobUnlessCommitted ==
    \A p \in Procs : Done(p) /\ ret[p].err # "" =>
        /\ ret[p].err \notin {ErrInfo, ErrUpdate} => DOMAIN blobs = DOMAIN pre
        /\ ret[p].err \in {ErrInfo, ErrUpdate} =>
              /\ DOMAIN blobs \ DOMAIN pre \subseteq {loc[p].dgst}
              /\ Happened(p, "Commit", "ok") <=> loc[p].dgst \notin DOMAIN pre
              /\ Happened(p, "Commit", "ok") => loc[p].dgst \in DOMAIN blobs

C1_Witness ==
    \E p \in Procs :
        /\ Done(p) /\ ret[p].err = ErrCommit
        /\ loc[p].dgst \notin DOMAIN blobs
        /\ Happened(p, "WriteDiff", "ok")

\* C2: after a Compare that took the compressed path and returned without
\* error, the blob of the returned digest is in the store and its labels hold
\* a value under containerd.io/uncompressed, whether this invocation committed
\* the blob or found it there, with or without the label.
C2_CompressedBlobIsLabelled ==
    \A p \in Procs : Done(p) /\ ret[p].err = "" /\ loc[p].isCompressed =>
        /\ ret[p].d.Digest \in DOMAIN blobs
        /\ uncompressed \in DOMAIN blobs[ret[p].d.Digest].Labels
        /\ blobs[ret[p].d.Digest].Labels[uncompressed] # EmptyString

C2_Witness ==
    \E p \in Procs :
        /\ Done(p) /\ ret[p].err = "" /\ loc[p].isCompressed
        /\ Happened(p, "Commit", "exists")
        /\ Happened(p, "Update", "ok")
        /\ uncompressed \notin DOMAIN pre[ret[p].d.Digest].Labels

\* the labels of a blob, the uncompressed one aside
OtherLabels(labels) == [k \in DOMAIN labels \ {uncompressed} |-> labels[k]]

\* C3, as stated: when Commit reports AlreadyExists, Compare returns without
\* error a descriptor of the blob that was there, having run no cleanup;
\* every other Commit error makes Compare fail.
C3_AlreadyExistsNeverFails ==
    \A p \in Procs : Done(p) =>
        /\ Happened(p, "Commit", "exists") =>
              /\ ret[p].err = ""
              /\ ret[p].d.Digest = loc[p].dgst
              /\ ~Invoked(p, "Close") /\ ~Invoked(p, "Abort")
        /\ Happened(p, "Commit", "err") => ret[p].err # ""

\* C3, amended: when Commit reports AlreadyExists, Compare runs no Close and no
\* Abort and goes on to the store's Info; unless Info or Update then fails, it
\* returns without error the descriptor of the blob that was there, which is
\* still the store's blob of that digest (the same size, the same labels but
\* for the uncompressed one).  Every other Commit error makes Compare fail.
C3_AlreadyExistsIsDedup ==
    \A p \in Procs :
        /\ Happened(p, "Commit", "exists") =>
              /\ ~Invoked(p, "Close") /\ ~Invoked(p, "Abort")
              /\ pc[p] # "info" => Invoked(p, "Info")
              /\ loc[p].dgst \in DOMAIN pre /\ loc[p].dgst \in DOMAIN blobs
              /\ blobs[loc[p].dgst].Size = pre[loc[p].dgst].Size
              /\ OtherLabels(blobs[loc[p].dgst].Labels) = OtherLabels(pre[loc[p].dgst].Labels)
              /\ Done(p) =>
                    /\ ret[p].err \in {"", ErrInfo, ErrUpdate}
                    /\ ret[p].err = "" <=>
                          ~Happened(p, "Info", "err") /\ ~Happened(p, "Update", "err")
                    /\ ret[p].err = "" =>
                          ret[p].d = [MediaType |-> config[p].MediaType,
                                      Digest |-> loc[p].dgst,
                                      Size |-> pre[loc[p].dgst].Size]
        /\ Done(p) /\ Happened(p, "Commit", "err") =>
              ret[p].err = ErrCommit /\ ret[p].d = emptyDesc

C3_Witness ==
    \E p \in Procs :
        /\ Done(p) /\ Happened(p, "Commit", "exists") /\ ret[p].err = ""
        /\ ret[p].d.Digest \in DOMAIN pre

\* what went wrong between the opening of the writer and its commit
OpenFailures == {ErrTruncate, ErrCompressor, ErrWrite, ErrCommit}

\* C4: after a failure between the opening of the writer and its successful
\* commit (truncate, compressor, diff stream, a commit error other than
\* AlreadyExists) the writer was closed; the store's Abort was invoked, for
\* the invocation's reference, if the invocation generated the reference, and
\* what was staged under it is gone when Abort succeeded; for a reference the
\* caller supplied Abort is never invoked.
C4_CleanupAfterOpenFailure ==
    \A p \in Procs :
        /\ pc[p] \in {"unmountUpper", "unmountLower", "done"} /\ loc[p].cbErr \in OpenFailures =>
              /\ Cardinality(Calls(p, "Close", {"ok"})) = 1
              /\ loc[p].newReference =>
                    /\ Cardinality(Calls(p, "Abort", {"ok", "err"})) = 1
                    /\ Happened(p, "Abort", "ok") => Ref(p) \notin DOMAIN ingests
              /\ Ref(p) \in DOMAIN ingests => ~ingests[Ref(p)].held
        /\ \A i \in DOMAIN log[p] : log[p][i].op = "Abort" =>
              /\ loc[p].newReference
              /\ log[p][i].ref = uniqueRef(p)
              /\ \E j \in 1..(i - 1) : log[p][j].op = "Close"
        /\ config[p].Reference = CallerRef => ~Invoked(p, "Abort")

C4_Witness ==
    \E p \in Procs :
        /\ Done(p) /\ ret[p].err = ErrWrite
        /\ loc[p].newReference
        /\ Happened(p, "Abort", "ok")

\* the options Compare is called with: the first that fails (0: none), the
\* options before it, and what these ask for
OptsOf(opts, kind) == {i \in DOMAIN opts : opts[i].kind = kind}
Least(S) == CHOOSE i \in S : \A j \in S : i <= j
Greatest(S) == CHOOSE i \in S : \A j \in S : j <= i
FirstFailing(opts) ==
    IF OptsOf(opts, "Failing") = {} THEN 0 ELSE Least(OptsOf(opts, "Failing"))
Effective(opts) ==
    IF FirstFailing(opts) = 0 THEN opts ELSE SubSeq(opts, 1, FirstFailing(opts) - 1)
AskedMediaType(opts) ==
    IF OptsOf(Effective(opts), "WithMediaType") = {} THEN ""
    ELSE opts[Greatest(OptsOf(Effective(opts), "WithMediaType"))].v
AskedCompressor(opts) == OptsOf(Effective(opts), "WithCompressor") # {}
AskedReference(opts) ==
    IF OptsOf(Effective(opts), "WithReference") = {} THEN "" ELSE CallerRef
AskedLabels(opts) == OptsOf(Effective(opts), "WithLabels") # {}

ConfigErrors == {ErrOption, ErrMediaTypeRequired, ErrUnsupported}
Resolved(p) == pc[p] \notin {"off", "start"}

\* C5: an option that fails, a custom compressor without media type and an
\* unsupported media type each make Compare return that error with the empty
\* descriptor, no mount and no store operation having been invoked; the
\* options after one that failed are not applied.
C5_ConfigFailureBeforeAnyCall ==
    \A p \in Procs : Resolved(p) =>
        LET opts == args[p].opts
            first == FirstFailing(opts)
        IN  /\ first # 0 =>
                  /\ Done(p) /\ ret[p] = [d |-> emptyDesc, err |-> ErrOption]
                  /\ loc[p].applied = first
                  /\ config[p].MediaType = AskedMediaType(opts)
                  /\ config[p].Compressor = AskedCompressor(opts)
                  /\ config[p].Reference = AskedReference(opts)
                  /\ config[p].Labels.nil = ~AskedLabels(opts)
            /\ first = 0 /\ AskedCompressor(opts) /\ AskedMediaType(opts) = "" =>
                  Done(p) /\ ret[p] = [d |-> emptyDesc, err |-> ErrMediaTypeRequired]
            /\ first = 0 /\ ~AskedCompressor(opts)
                  /\ AskedMediaType(opts) = MediaTypeImageLayerZstd =>
                  Done(p) /\ ret[p] = [d |-> emptyDesc, err |-> ErrUnsupported]
            /\ Done(p) /\ ret[p].err \in ConfigErrors =>
                  /\ ret[p].d = emptyDesc
                  /\ log[p] = <<>>
                  /\ blobs = pre
                  /\ \/ first # 0
                     \/ AskedCompressor(opts) /\ AskedMediaType(opts) = ""
                     \/ ~AskedCompressor(opts) /\ AskedMediaType(opts) = MediaTypeImageLayerZstd

C5_Witness ==
    \E p \in Procs :
        /\ Done(p) /\ ret[p].err = ErrOption
        /\ Len(args[p].opts) = 2
        /\ args[p].opts[1].kind = "Failing"
        /\ args[p].opts[2].kind = "WithReference"
        /\ config[p].Reference = ""

\* C6, as stated: with or without a custom compressor, an empty media type
\* without compressor gives the compressed layer type and the compressed path;
\* a media type that is not empty must be one of the two: the uncompressed
\* layer type takes the uncompressed path, the compressed one the compressed
\* path, any other makes Compare fail as unsupported.
C6_MediaTypeOneOfTwo ==
    \A p \in Procs : Resolved(p) /\ FirstFailing(args[p].opts) = 0 =>
        LET mt == AskedMediaType(args[p].opts)
            custom == AskedCompressor(args[p].opts)
        IN  /\ mt = "" /\ ~custom =>
                  /\ config[p].MediaType = MediaTypeImageLayerGzip
                  /\ loc[p].isCompressed /\ ret[p].err \notin ConfigErrors
            /\ mt = MediaTypeImageLayer =>
                  /\ config[p].MediaType = mt
                  /\ ~loc[p].isCompressed /\ ret[p].err \notin ConfigErrors
            /\ mt = MediaTypeImageLayerGzip =>
                  /\ config[p].MediaType = mt
                  /\ loc[p].isCompressed /\ ret[p].err \notin ConfigErrors
            /\ mt \notin {"", MediaTypeImageLayer, MediaTypeImageLayerGzip} =>
                  Done(p) /\ ret[p].err = ErrUnsupported

\* C6, amended: without a custom compressor, as stated; with a custom
\* compressor every media type that is not empty is kept as it is and takes
\* the compressed path.
C6_MediaTypeResolution ==
    \A p \in Procs : Resolved(p) /\ FirstFailing(args[p].opts) = 0 =>
        LET mt == AskedMediaType(args[p].opts)
            custom == AskedCompressor(args[p].opts)
        IN  /\ mt = "" /\ ~custom =>
                  /\ config[p].MediaType = MediaTypeImageLayerGzip
                  /\ loc[p].isCompressed /\ ret[p].err \notin ConfigErrors
            /\ mt = MediaTypeImageLayer /\ ~custom =>
                  /\ config[p].MediaType = mt
                  /\ ~loc[p].isCompressed /\ ret[p].err \notin ConfigErrors
            /\ mt = MediaTypeImageLayerGzip /\ ~custom =>
                  /\ config[p].MediaType = mt
                  /\ loc[p].isCompressed /\ ret[p].err \notin ConfigErrors
            /\ mt \notin {"", MediaTypeImageLayer, MediaTypeImageLayerGzip} /\ ~custom =>
                  Done(p) /\ ret[p].err = ErrUnsupported
            /\ mt # "" /\ custom =>
                  /\ config[p].MediaType = mt
                  /\ loc[p].isCompressed /\ ret[p].err \notin ConfigErrors
            /\ \A i \in DOMAIN log[p] : log[p][i].op = "WriteDiff" =>
                  (loc[p].isCompressed <=> Invoked(p, "Compressor"))

C6_Witness ==
    \E p \in Procs :
        /\ pc[p] = "commit"
        /\ AskedCompressor(args[p].opts)
        /\ AskedMediaType(args[p].opts) = MediaTypeImageLayerZstd
        /\ Staged(p)[Len(Staged(p))].enc = "custom"

\* an option list as C7 describes it: the entries that are neither upperdir=
\* nor workdir=, and the upper directory (the value of the last upperdir=
\* entry; empty when there is none)
IsUpperdir(o) == HasPrefix(o, UpperdirEq)
IsWorkdir(o) == HasPrefix(o, WorkdirEq)
IsLowerdir(o) == HasPrefix(o, LowerdirEq)
IsKept(o) == ~IsUpperdir(o) /\ ~IsWorkdir(o)
UpperOf(opt) ==
    LET ups == {i \in DOMAIN opt : IsUpperdir(opt[i])}
    IN  IF ups = {} THEN <<>> ELSE Tail(opt[Greatest(ups)])

\* C7: readonlyOverlay's result holds no upperdir= and no workdir= entry and
\* keeps the other options in their order; when the list gives an upper
\* directory U (an upperdir= entry, anywhere in the list, with a value) each
\* lowerdir=L becomes lowerdir=U:L, and otherwise every lowerdir entry is as it
\* was; {upperdir=/a, lowerdir=/b:/c, workdir=/d} gives {lowerdir=/a:/b:/c}.
C7_ReadonlyOverlay ==
    roOut[1] = "returned" =>
        LET out == roOut[2]
            kept == SelectSeq(roIn, IsKept)
            U == UpperOf(roIn)
        IN  /\ \A i \in DOMAIN out : ~IsUpperdir(out[i]) /\ ~IsWorkdir(out[i])
            /\ Len(out) = Len(kept)
            /\ \A i \in DOMAIN out :
                  out[i] = IF IsLowerdir(kept[i]) /\ U # <<>>
                           THEN <<"lowerdir=">> \o U \o <<":">> \o Tail(kept[i])
                           ELSE kept[i]
            /\ roIn = ExampleOptions =>
                  out = << <<"lowerdir=", "/a", ":", "/b", ":", "/c">> >>

C7_Witness ==
    /\ roIn = << <<"lowerdir=", "/b", ":", "/c">>, <<"index=off">>, <<"upperdir=", "/a">> >>
    /\ roOut = <<"returned",
                 << <<"lowerdir=", "/a", ":", "/b", ":", "/c">>, <<"index=off">> >> >>

\* C8: Compare changes nothing in the caller's mounts but the options of the
\* upper mounts of type "overlay", which become readonlyOverlay of what they
\* were: the upper mounts of another type, every mount's type and source, and
\* the lower mounts, overlay or not, are as they were passed in.
C8_OnlyUpperOverlayRewritten ==
    \A p \in Procs : pc[p] # "off" =>
        LET rewritten == Resolved(p) /\ FirstFailing(args[p].opts) = 0
        IN  /\ mounts[p].lower = args[p].lower
            /\ Len(mounts[p].upper) = Len(args[p].upper)
            /\ \A i \in DOMAIN args[p].upper :
                  LET was == args[p].upper[i]
                      is == mounts[p].upper[i]
                  IN  /\ is.Type = was.Type
                      /\ is.Source = was.Source
                      /\ was.Type # "overlay" => is.Options = was.Options
                      /\ was.Type = "overlay" =>
                            is.Options = IF rewritten THEN readonlyOverlay(was.Options)
                                         ELSE was.Options

C8_Witness ==
    \E p \in Procs :
        /\ pc[p] = "mountLower"
        /\ args[p].lower = <<Mount("overlay", ExampleOptions)>>
        /\ args[p].upper = <<Mount("bind", ExampleOptions), Mount("overlay", ExampleOptions)>>
        /\ mounts[p].upper[1].Options = ExampleOptions
        /\ mounts[p].upper[2].Options = << <<"lowerdir=", "/a", ":", "/b", ":", "/c">> >>

\* the places of an invocation's calls in its log
MountCalls(p, op, results, side) ==
    {i \in Calls(p, op, results) : log[p][i].ref = side}
Before(I, J) == \A i \in I, j \in J : i < j

\* C9: the lower set is mounted before the upper set, the upper set is
\* unmounted before the lower set, and each set that was mounted is unmounted,
\* once, when Compare has returned, however it ended; when the lower mount
\* fails, the upper mount is not attempted and no writer is opened.
C9_MountsNestedAndReleased ==
    \A p \in Procs :
        LET lowerOk == MountCalls(p, "Mount", {"ok"}, "lower")
            upperOk == MountCalls(p, "Mount", {"ok"}, "upper")
            upperAny == MountCalls(p, "Mount", {"ok", "err"}, "upper")
            lowerOut == MountCalls(p, "Unmount", {"ok"}, "lower")
            upperOut == MountCalls(p, "Unmount", {"ok"}, "upper")
        IN  /\ upperAny # {} => lowerOk # {} /\ Before(lowerOk, upperAny)
            /\ Before(upperOk, upperOut) /\ Before(lowerOk, lowerOut)
            /\ Before(upperOut, lowerOut)
            /\ lowerOut # {} => (upperOk # {} => upperOut # {})
            /\ Cardinality(upperOut) <= Cardinality(upperOk)
            /\ Cardinality(lowerOut) <= Cardinality(lowerOk)
            /\ Done(p) => /\ Cardinality(upperOut) = Cardinality(upperOk)
                          /\ Cardinality(lowerOut) = Cardinality(lowerOk)
                          /\ Cardinality(lowerOk) <= 1 /\ Cardinality(upperOk) <= 1
            /\ Happened(p, "Mount", "err") /\ upperAny = {} =>
                  /\ ~Invoked(p, "Writer")
                  /\ Len(log[p]) = 1
                  /\ Done(p) /\ ret[p].err = ErrMountLower
            /\ \A i \in DOMAIN log[p] :
                  log[p][i].op \in StoreOps \cup {"Compressor"} =>
                      /\ Before(lowerOk, {i}) /\ Before(upperOk, {i})
                      /\ lowerOk # {} /\ upperOk # {}
                      /\ Before({i}, upperOut)

C9_Witness ==
    \E p \in Procs :
        /\ Done(p) /\ ret[p].err = ErrUpdate
        /\ log[p][Len(log[p]) - 1] = Ev("Unmount", "ok", "upper")
        /\ log[p][Len(log[p])] = Ev("Unmount", "ok", "lower")

\* the calls that release the writer
Closes(p) == Calls(p, "Close", {"ok"})
Unmounts(p) == Calls(p, "Unmount", {"ok"})
AfterWriter(p) ==
    /\ Happened(p, "Writer", "ok")
    /\ pc[p] \in {"unmountUpper", "unmountLower", "done"}

AllCalls(p, op) == {i \in DOMAIN log[p] : log[p][i].op = op}

\* C12: Compare returns a descriptor that is not the empty one only after
\* the commit succeeded or reported AlreadyExists and after Info, and Update
\* when it was called, returned without error, in that order; the descriptor
\* has the effective media type and the digest and the size the store holds
\* for the blob; whenever Compare returns an error it returns the empty
\* descriptor, and whenever it returns no error the descriptor is not empty.
C12_DescriptorOnlyAfterReconciliation ==
    \A p \in Procs : Done(p) =>
        /\ ret[p].err # "" => ret[p].d = emptyDesc
        /\ ret[p].err = "" => ret[p].d # emptyDesc
        /\ ret[p].d # emptyDesc =>
              LET commits == Calls(p, "Commit", {"ok", "exists"})
                  infos == Calls(p, "Info", {"ok"})
              IN  /\ ret[p].err = ""
                  /\ Cardinality(commits) = 1 /\ Cardinality(infos) = 1
                  /\ Calls(p, "Commit", {"err"}) = {}
                  /\ Calls(p, "Info", {"err"}) = {}
                  /\ Calls(p, "Update", {"err"}) = {}
                  /\ Before(commits, infos)
                  /\ Before(infos, AllCalls(p, "Update"))
                  /\ Before(infos \cup AllCalls(p, "Update"), Unmounts(p))
                  /\ ret[p].d.MediaType = config[p].MediaType
                  /\ config[p].MediaType # ""
                  /\ ret[p].d.Digest = loc[p].dgst
                  /\ ret[p].d.Digest \in DOMAIN blobs
                  /\ ret[p].d.Size = blobs[ret[p].d.Digest].Size

C12_Witness ==
    \E p \in Procs :
        /\ Done(p) /\ ret[p].d # emptyDesc
        /\ Happened(p, "Commit", "ok")
        /\ Happened(p, "Info", "ok")
        /\ ~Invoked(p, "Update")
        /\ ret[p].d.Size = 3

\* what can go wrong in the Writing stage: the compressor is not created,
\* archive.WriteDiff fails, the compressor's Close fails to flush its last
\* bytes into the writer
WritingFailed(p) ==
    \/ Happened(p, "Compressor", "err")
    \/ Happened(p, "WriteDiff", "err")
    \/ Happened(p, "WriteDiff", "close failed")

\* C13: when the creation of the compressor, the diff streamer, or the
\* flushing and closing of the compressor into the writer fails, Commit is
\* never invoked for the transaction, the cleanup (Close) runs, and Compare
\* returns an error.
C13_WritingErrorAborts ==
    \A p \in Procs : WritingFailed(p) =>
        /\ ~Invoked(p, "Commit")
        /\ pc[p] \in {"unmountUpper", "unmountLower", "done"} => Invoked(p, "Close")
        /\ Done(p) => ret[p].err # "" /\ ret[p].d = emptyDesc

\* what an invocation gave to Commit, by the digest: the last chunk written
CommittedChunk(p) == loc[p].dgst[2][Len(loc[p].dgst[2])]

\* C14: the store's Update is invoked only when the blob had no uncompressed
\* label at Info and the invocation is on the compressed path; an invocation
\* on the uncompressed path never invokes it; the value it writes is the
\* digest the invocation computed over the raw diff bytes.
C14_UpdateOnlyOnCompressedPath ==
    \A p \in Procs :
        /\ pc[p] = "update" \/ Invoked(p, "Update") =>
              /\ loc[p].isCompressed
              /\ Happened(p, "Info", "ok")
              /\ loc[p].info.Labels[uncompressed] = RawDigest(CommittedChunk(p).c)
        /\ pc[p] = "update" => NeedsLabel(blobs[loc[p].dgst].Labels)
        /\ ~loc[p].isCompressed => ~Invoked(p, "Update")

\* C16: the writer is truncated (once) if and only if the caller supplied the
\* reference: Truncate is the call that follows the opening of the writer,
\* before the compressor is created and before any diff byte is written, so
\* that what an earlier user left staged under the reference is gone when the
\* writing starts; after a Truncate that failed nothing is written or
\* committed; with a generated reference Truncate is never invoked.
C16_TruncateIffCallerReference ==
    \A p \in Procs :
        LET n == Len(log[p])
            supplied == AskedReference(args[p].opts) = CallerRef
            opened == n >= 3 /\ log[p][3] = Ev("Writer", "ok", Ref(p))
        IN  /\ \A i \in DOMAIN log[p] :
                  /\ log[p][i].op = "Truncate" =>
                        /\ i = 4 /\ opened
                        /\ supplied /\ ~loc[p].newReference /\ Ref(p) = CallerRef
                  /\ log[p][i].op = "Writer" => i = 3
                  /\ log[p][i].op \in {"Compressor", "WriteDiff", "Commit"} =>
                        /\ opened
                        /\ i >= (IF supplied THEN 5 ELSE 4)
                        /\ supplied => log[p][4] = Ev("Truncate", "ok", CallerRef)
            /\ opened /\ pc[p] # "truncate" =>
                  IF supplied
                  THEN n >= 4 /\ log[p][4].op = "Truncate"
                  ELSE loc[p].newReference /\ Ref(p) = uniqueRef(p)
            /\ pc[p] \in {"compressor", "write"} => Staged(p) = <<>>
            /\ pc[p] = "commit" => Len(Staged(p)) = 1 /\ Staged(p)[1] # StaleChunk

C16_Witness ==
    \E p \in Procs :
        /\ pc[p] = "commit"
        /\ pre = <<>>
        /\ Ref(p) = CallerRef
        /\ Happened(p, "Truncate", "ok")
        /\ Happened(p, "WriteDiff", "ok")
        /\ Len(Staged(p)) = 1

\* the calls of an invocation on the store
StoreCalls(p) == {i \in DOMAIN log[p] : log[p][i].op \in StoreOps}

\* the place of a call in the order of Compare's steps
Rank(op) ==
    CASE op = "Mount" -> 1
      [] op = "Writer" -> 2
      [] op = "Truncate" -> 3
      [] op = "Compressor" -> 4
      [] op = "WriteDiff" -> 5
      [] op = "Commit" -> 6
      [] op = "Info" -> 7
      [] op = "Update" -> 8
      [] op = "Close" -> 9
      [] op = "Abort" -> 10
      [] op = "Unmount" -> 11

\* C17: the calls of one invocation come in the order of the steps, each call
\* once (two mounts, two unmounts): both mount sets are mounted before the
\* writer is opened; the diff is written, and the writing has returned
\* without error, right before Commit is invoked; Commit has returned, with
\* success or AlreadyExists, right before Info, and Info right before Update;
\* every store operation comes after both mounts and before the first
\* unmount.
C17_StepsOrdered ==
    \A p \in Procs :
        LET n == Len(log[p])
        IN  /\ \A i \in 1..(n - 1) :
                  \/ Rank(log[p][i].op) < Rank(log[p][i + 1].op)
                  \/ log[p][i].op = log[p][i + 1].op /\ log[p][i].op \in {"Mount", "Unmount"}
            /\ \A i \in DOMAIN log[p] :
                  /\ log[p][i].op \in StoreOps \cup {"Compressor"} =>
                        /\ i >= 3
                        /\ log[p][1] = Ev("Mount", "ok", "lower")
                        /\ log[p][2] = Ev("Mount", "ok", "upper")
                        /\ log[p][3].op = "Writer"
                        /\ i > 3 => log[p][3].res = "ok"
                  /\ log[p][i].op = "Commit" =>
                        /\ log[p][i - 1].op = "WriteDiff"
                        /\ log[p][i - 1].res \in {"ok", "close failed"}
                  /\ log[p][i].op = "Info" =>
                        /\ log[p][i - 1].op = "Commit"
                        /\ log[p][i - 1].res \in {"ok", "exists"}
                  /\ log[p][i].op = "Update" => log[p][i - 1] = Ev("Info", "ok", Ref(p))
            /\ pc[p] \in {"openWriter", "truncate", "compressor", "write", "commit",
                          "info", "update", "defer", "abort"} =>
                  /\ n >= 2
                  /\ log[p][n].op # "Unmount"

C17_Witness ==
    \E p \in Procs :
        /\ Done(p) /\ ret[p].err = ""
        /\ Len(log[p]) = 10
        /\ [i \in 1..10 |-> log[p][i].op] =
              <<"Mount", "Mount", "Writer", "Truncate", "Compressor", "WriteDiff",
                "Commit", "Info", "Unmount", "Unmount">>

\* the calls of the deferred cleanup
Cleanups(p) == AllCalls(p, "Close") \cup AllCalls(p, "Abort")

\* C19: after Commit succeeded or reported AlreadyExists, the invocation
\* invokes neither Close nor Abort, whether Info and Update then succeed or
\* fail and whatever Compare returns, and errOpen stays nil; an invocation
\* that invoked Abort has no such commit, before or after.
C19_NoCleanupAfterCommit ==
    \A p \in Procs :
        LET commits == Calls(p, "Commit", {"ok", "exists"})
        IN  /\ commits # {} => Cleanups(p) = {} /\ loc[p].errOpen = ""
            /\ Cleanups(p) # {} => commits = {}
            /\ commits # {} /\ Done(p) =>
                  /\ ret[p].err \in {"", ErrInfo, ErrUpdate}
                  /\ Happened(p, "Commit", "ok") => loc[p].dgst \in DOMAIN blobs
            /\ Before(commits, Unmounts(p))

C19_Witness ==
    \E p \in Procs :
        /\ Done(p) /\ ret[p].err = ErrUpdate
        /\ Happened(p, "Commit", "ok")
        /\ loc[p].newReference
        /\ Cleanups(p) = {}

\* an invocation that generated its reference, opened the writer and returned
ReturnedAfterOpen(p) ==
    Done(p) /\ loc[p].newReference /\ Happened(p, "Writer", "ok")

\* C20, as stated: after a Compare that generated its reference and opened
\* the writer has returned, however it ended, the store holds no transaction
\* under that reference.
C20_NothingStagedAfterReturn ==
    \A p \in Procs : ReturnedAfterOpen(p) => Ref(p) \notin DOMAIN ingests

\* C20, amended: after such a Compare has returned, the store holds no
\* transaction under the reference when Commit succeeded (whatever Info and
\* Update did then) and when the cleanup's Abort succeeded; a transaction
\* is left under the reference only when the store's Abort failed, and then
\* it is closed, or when Commit reported AlreadyExists and the store did not
\* discard the transaction itself, Compare invoking no Close and no Abort.
C20_NothingStagedUnlessAbortFailed ==
    \A p \in Procs : ReturnedAfterOpen(p) =>
        /\ Ref(p) = uniqueRef(p)
        /\ Happened(p, "Commit", "ok") => Ref(p) \notin DOMAIN ingests
        /\ Happened(p, "Abort", "ok") => Ref(p) \notin DOMAIN ingests
        /\ ret[p].err \in OpenFailures => Invoked(p, "Abort")
        /\ Ref(p) \in DOMAIN ingests =>
              \/ Happened(p, "Abort", "err") /\ ~ingests[Ref(p)].held
              \/ Happened(p, "Commit", "exists") /\ Cleanups(p) = {}

C20_Witness ==
    \E p \in Procs :
        /\ ReturnedAfterOpen(p)
        /\ ret[p].err = ErrCommit
        /\ Happened(p, "Abort", "err")
        /\ Ref(p) \in DOMAIN ingests
        /\ Len(ingests[Ref(p)].data) = 1

\* the errors of the validation of 94-112
ValidationErrors == {ErrMediaTypeRequired, ErrUnsupported}

\* C18: a Compare that fails the validation of its configuration (custom
\* compressor without media type, unsupported media type) has had no effect:
\* it made no call, the store is as it was, and the caller's mount sets, the
\* upper one with its overlay entries too, are as they were passed in.
C18_ValidationFailureLeavesMounts ==
    \A p \in Procs : Done(p) /\ ret[p].err \in ValidationErrors =>
        /\ log[p] = <<>>
        /\ blobs = pre
        /\ mounts[p].lower = args[p].lower
        /\ mounts[p].upper = args[p].upper

\* two invocations that both generate their reference
Other(p) == CHOOSE q \in Procs : q # p
BothGenerate == \A p \in Procs : pc[p] # "off" /\ AskedReference(args[p].opts) = ""
\* no call the invocation made has failed
AllOk(p) == \A i \in DOMAIN log[p] : log[p][i].res \in {"ok", "exists"}

\* C11: of two invocations on one store that both generate their reference,
\* each makes its store calls under its own reference, which is not the
\* other's; the store can open its writer whatever the other does; what is
\* staged under its reference while it writes and commits is what it staged
\* itself, held by its own writer (the other has not truncated, closed,
\* aborted or committed it); when none of its calls failed it returns without
\* error the descriptor of what it wrote itself, with the store's size; and
\* when the two wrote different contents the digests returned differ and a
\* commit finds the blob in the store only if it was there before.
C11_ConcurrentIndependent ==
    BothGenerate =>
        \A p \in Procs :
            LET q == Other(p)
            IN  /\ \A i \in StoreCalls(p) :
                      log[p][i].ref = uniqueRef(p) /\ log[p][i].ref # uniqueRef(q)
                /\ \A i \in StoreCalls(p), j \in StoreCalls(q) : log[p][i].ref # log[q][j].ref
                /\ pc[p] = "openWriter" => uniqueRef(p) \notin DOMAIN ingests
                /\ pc[p] \in {"compressor", "write", "commit"} =>
                      /\ Ref(p) \in DOMAIN ingests /\ ingests[Ref(p)].held
                      /\ pc[p] # "commit" => Staged(p) = <<>>
                      /\ pc[p] = "commit" =>
                            Len(Staged(p)) = 1 /\ Staged(p)[1].enc = Encoding(p)
                /\ Done(p) /\ AllOk(p) =>
                      /\ ret[p].err = ""
                      /\ ret[p].d.Digest = loc[p].dgst
                      /\ CommittedChunk(p) = FullChunk(Encoding(p), CommittedChunk(p).c)
                      /\ Len(loc[p].dgst[2]) = 1
                      /\ ret[p].d.Size = SizeOf(loc[p].dgst[2])
                      /\ ret[p].d.MediaType = config[p].MediaType
                      /\ loc[p].isCompressed =>
                            blobs[ret[p].d.Digest].Labels[uncompressed] =
                                RawDigest(CommittedChunk(p).c)
                /\ Done(p) /\ Done(q) /\ AllOk(p) /\ AllOk(q)
                      /\ CommittedChunk(p).c # CommittedChunk(q).c =>
                      /\ ret[p].d.Digest # ret[q].d.Digest
                      /\ Happened(p, "Commit", "exists") => ret[p].d.Digest \in DOMAIN pre

C11_Witness ==
    /\ BothGenerate
    /\ \A p \in Procs : Done(p) /\ AllOk(p) /\ Happened(p, "Commit", "ok")
    /\ pre = <<>>
    /\ Cardinality(DOMAIN blobs) = 2
    /\ ret[1].d.Digest # ret[2].d.Digest
    /\ Encoding(1) = Encoding(2)

\* C15: a step of any invocation leaves the value of the uncompressed label
\* of every blob that has one (a value that is not the empty string) as it
\* was, however the invocations' Info and Update calls interleave.
C15_LabelNeverChanged ==
    [][\A d \in DOMAIN blobs :
          uncompressed \in DOMAIN blobs[d].Labels
              /\ blobs[d].Labels[uncompressed] # EmptyString =>
              /\ d \in DOMAIN blobs'
              /\ uncompressed \in DOMAIN blobs'[d].Labels
              /\ blobs'[d].Labels[uncompressed] = blobs[d].Labels[uncompressed]]_vars

====
